---- MODULE Spec2Model ----
(***************************************************************************)
(* The trivia REST backend of backend/flaskr/__init__.py as a state        *)
(* machine.  The store is the table of questions (kept in id order) and    *)
(* the static table of categories; each action is one HTTP request handled *)
(* to completion, recording the request, the store it started from, and    *)
(* the response.                                                           *)
(*                                                                         *)
(* JSON values are tagged records; text is a sequence of one-character     *)
(* strings so that ILIKE is computed, not assumed.  A JSON object (the     *)
(* request body) is a function from its present keys to JSON values.       *)
(***************************************************************************)
EXTENDS Integers, Sequences, FiniteSets, TLC

VARIABLES
    categories,   \* rows of the categories table: sequence of [id, type]
    questions,    \* rows of the questions table, in id order
    nextId,       \* the id the storage assigns to the next inserted row
    req,          \* the last request
    resp,         \* the last response
    before,       \* the questions table when the last request arrived
    roundState,   \* quiz client: "idle", "playing" or "exhausted"
    roundCat,     \* quiz client: the category id of the round
    previous,     \* quiz client: ids received so far (previous_questions)
    calls         \* quiz client: number of POST /quizzes sent in the round

vars == <<categories, questions, nextId, req, resp, before,
          roundState, roundCat, previous, calls>>

storeVars == <<categories, questions, nextId>>
roundVars == <<roundState, roundCat, previous, calls>>

-----------------------------------------------------------------------------
(* Bounds and program constants *)

QUESTIONS_PER_PAGE == 10

\* ids the storage hands out in Spec (creates stop once they are used up)
MaxId == 2
\* largest seeded table in PageSpec
MaxItems == 21
\* largest seeded table in RoundSpec
MaxRound == 5

-----------------------------------------------------------------------------
(* JSON values *)

JNull == [t |-> "null"]
JStr(s) == [t |-> "str", v |-> s]
JInt(n) == [t |-> "int", v |-> n]
JList(seq) == [t |-> "list", v |-> seq]
JObj(d) == [t |-> "obj", v |-> d]

EmptyDict == [k \in {} |-> JNull]
Without(d, k) == [x \in DOMAIN d \ {k} |-> d[x]]
With(d, k, val) == (k :> val) @@ d

\* dict.get(key): None when the key is absent
Get(d, k) == IF k \in DOMAIN d THEN d[k] ELSE JNull

Min(a, b) == IF a < b THEN a ELSE b
Max(a, b) == IF a > b THEN a ELSE b

RECURSIVE SelectRows(_, _)
\* the rows of seq (in order) whose index satisfies keep
SelectRows(seq, keep) ==
    IF seq = <<>> THEN <<>>
    ELSE LET rest == SelectRows(Tail(seq), [i \in 1..(Len(seq) - 1) |-> keep[i + 1]])
         IN IF keep[1] THEN <<Head(seq)>> \o rest ELSE rest

Ids(seq) == {seq[i].id : i \in 1..Len(seq)}

-----------------------------------------------------------------------------
(* Text and ILIKE *)

Lower(c) == IF c = "A" THEN "a" ELSE IF c = "B" THEN "b" ELSE c
LowerText(s) == [i \in 1..Len(s) |-> Lower(s[i])]

RECURSIVE LikeMatch(_, _)
\* SQL LIKE: % matches any run of characters, _ any one character
LikeMatch(p, s) ==
    IF p = <<>> THEN s = <<>>
    ELSE IF Head(p) = "%"
         THEN LikeMatch(Tail(p), s) \/ (s # <<>> /\ LikeMatch(p, Tail(s)))
    ELSE IF s = <<>> THEN FALSE
    ELSE (Head(p) = "_" \/ Head(p) = Head(s)) /\ LikeMatch(Tail(p), Tail(s))

\* column.ilike(pattern) on a stored value: NULL never matches
ilike(val, pattern) ==
    val.t = "str" /\ LikeMatch(LowerText(pattern), LowerText(val.v))

-----------------------------------------------------------------------------
(* Storage collaborator (models.py): rows, insert, delete, format *)

\* Question(question, answer, category, difficulty): a row not yet stored
NewQuestion(question, answer, category, difficulty) ==
    [question |-> question, answer |-> answer,
     category |-> category, difficulty |-> difficulty]

\* Question.insert(): the storage assigns the next id and appends the row
insert(table, id, row) ==
    Append(table, [id |-> id, question |-> row.question, answer |-> row.answer,
                   category |-> row.category, difficulty |-> row.difficulty])

IsNot(id, row) == row.id # id
\* Question.delete(): the row with this id is removed, the others stay
delete(table, id) == SelectRows(table, [i \in 1..Len(table) |-> IsNot(id, table[i])])

\* Question.format(): the row as a JSON object
format(row) ==
    [id |-> row.id, question |-> row.question, answer |-> row.answer,
     category |-> row.category, difficulty |-> row.difficulty]

\* Question.query.get(id): the row, or None
HasId(table, id) == \E i \in 1..Len(table) : table[i].id = id

-----------------------------------------------------------------------------
(* Outcomes of a handler body: a returned response or a raised exception *)

Return(body, status) == [raised |-> FALSE, status |-> status, body |-> body]
\* abort(code): raises werkzeug's HTTPException, which is an Exception
Abort(code) == [raised |-> TRUE, exc |-> "HTTPException", status |-> code]
\* any other Python exception
Raise(name) == [raised |-> TRUE, exc |-> name, status |-> 500]

unprocessable == [status |-> 422, body |-> [success |-> FALSE, message |-> "unprocessable"]]
not_found == [status |-> 404, body |-> [success |-> FALSE, message |-> "resource not found"]]

\* what the framework sends: the returned response, the registered error
\* handler's response for 404 and 422, and 500 for an uncaught exception
Finish(out) ==
    IF ~out.raised THEN [status |-> out.status, body |-> out.body]
    ELSE IF out.exc = "HTTPException" /\ out.status = 422 THEN unprocessable
    ELSE IF out.exc = "HTTPException" /\ out.status = 404 THEN not_found
    ELSE [status |-> 500, body |-> [success |-> FALSE, message |-> out.exc]]

-----------------------------------------------------------------------------
(* paginate *)

\* request.args.get('page', 1, type=int)
PageOf(args) ==
    IF "page" \in DOMAIN args /\ args["page"].t = "int" THEN args["page"].v ELSE 1

\* Python's seq[first:last]: negative indices count from the end, all clamped
SliceIndex(i, n) == IF i < 0 THEN Max(i + n, 0) ELSE Min(i, n)
PySlice(seq, first, last) ==
    LET lo == SliceIndex(first, Len(seq))
        hi == SliceIndex(last, Len(seq))
    IN IF lo >= hi THEN <<>> ELSE SubSeq(seq, lo + 1, hi)

\* mutant: pages are counted from 0
paginate_ZeroBased(args, selection) ==
    LET page == PageOf(args)
        first_displayed == page * QUESTIONS_PER_PAGE
        last_displayed == first_displayed + QUESTIONS_PER_PAGE
        formatted == [i \in 1..Len(selection) |-> format(selection[i])]
    IN PySlice(formatted, first_displayed, last_displayed)

paginate(args, selection) ==
    LET page == PageOf(args)
        first_displayed == (page - 1) * QUESTIONS_PER_PAGE
        last_displayed == first_displayed + QUESTIONS_PER_PAGE
        formatted == [i \in 1..Len(selection) |-> format(selection[i])]
    IN PySlice(formatted, first_displayed, last_displayed)

CategoriesOf(page) == [i \in 1..Len(page) |-> page[i].category]

\* {category.id: category.type for category in Category.query.all()}
CategoryDict(rows) ==
    [c \in {rows[i].id : i \in 1..Len(rows)} |->
        rows[CHOOSE i \in 1..Len(rows) : rows[i].id = c /\
                \A j \in (i + 1)..Len(rows) : rows[j].id # c].type]

-----------------------------------------------------------------------------
(* The handlers, as functions of the store and the request *)

\* GET /categories
get_categories(cats) ==
    LET dict == CategoryDict(cats)
        try == IF Cardinality(DOMAIN dict) = 0 THEN Abort(404)
               ELSE Return([success |-> TRUE, categories |-> dict], 200)
    IN \* except Exception: abort(422)
       IF try.raised THEN Abort(422) ELSE try

\* GET /questions?page=N
get_questions(cats, table, args) ==
    LET page == paginate(args, table)
        try == IF Len(page) = 0 THEN Abort(404)
               ELSE Return([success |-> TRUE,
                            questions |-> page,
                            total_questions |-> Len(table),
                            current_category |-> CategoriesOf(page),
                            categories |-> CategoryDict(cats)], 200)
    IN \* except Exception: 404 when the page is empty, else 422
       IF try.raised
       THEN (IF Len(page) = 0 THEN Abort(404) ELSE Abort(422))
       ELSE try

\* mutant: the total is counted before the row is deleted
delete_questions_StaleTotal(table, question_id) ==
    IF ~HasId(table, question_id)
    THEN [out |-> Abort(404), table |-> table]
    ELSE LET after == delete(table, question_id)
         IN [out |-> Return([success |-> TRUE,
                             deleted |-> question_id,
                             total_questions |-> Len(table)], 200),
             table |-> after]

\* DELETE /questions/<id>: the outcome and the table afterwards
delete_questions(table, question_id) ==
    IF ~HasId(table, question_id)
    THEN [out |-> Abort(404), table |-> table]
    ELSE LET after == delete(table, question_id)
         IN [out |-> Return([success |-> TRUE,
                             deleted |-> question_id,
                             total_questions |-> Len(after)], 200),
             table |-> after]

\* Question.query.filter(Question.question.ilike('%' + search_term + '%')).all()
SearchQuery(table, term) ==
    SelectRows(table, [i \in 1..Len(table) |->
                          ilike(table[i].question, <<"%">> \o term \o <<"%">>)])

\* the search branch of POST /questions
search_questions(table, search_term, args) ==
    IF search_term.t # "str" THEN Raise("TypeError")
    ELSE LET results == paginate(args, SearchQuery(table, search_term.v))
         IN Return([success |-> TRUE,
                    questions |-> results,
                    total_questions |-> Len(results),
                    current_category |-> CategoriesOf(results)], 200)

CreateKeys == <<"question", "answer", "category", "difficulty">>

\* the create branch of POST /questions: outcome, table and next id afterwards
insert_question(table, id, d, args) ==
    IF \E i \in 1..Len(CreateKeys) : CreateKeys[i] \notin DOMAIN d
    THEN [out |-> Raise("KeyError"), table |-> table, nextId |-> id]
    ELSE LET new == NewQuestion(d["question"], d["answer"],
                                d["category"], d["difficulty"])
             after == insert(table, id, new)
         IN [out |-> Return([success |-> TRUE,
                             questions |-> paginate(args, after),
                             total_questions |-> Len(after)], 200),
             table |-> after, nextId |-> id + 1]

\* POST /questions: search when the body has a searchTerm, else create
create_question(table, id, data, args) ==
    LET try == IF data.t # "obj"
               THEN [out |-> Raise("AttributeError"), table |-> table, nextId |-> id]
               ELSE IF Get(data.v, "searchTerm").t # "null"
               THEN [out |-> search_questions(table, Get(data.v, "searchTerm"), args),
                     table |-> table, nextId |-> id]
               ELSE insert_question(table, id, data.v, args)
    IN \* except Exception: abort(422)
       IF try.out.raised THEN [try EXCEPT !.out = Abort(422)] ELSE try

\* Question.query.filter_by(category=category_id).all()
InCategory(table, category_id) ==
    SelectRows(table, [i \in 1..Len(table) |->
                          table[i].category.t = "int" /\ table[i].category.v = category_id])

\* GET /categories/<id>/questions?page=N
get_questions_categories(table, category_id, args) ==
    LET questions_pagniated == paginate(args, InCategory(table, category_id))
    IN IF Len(questions_pagniated) = 0 THEN Abort(404)
       ELSE Return([success |-> TRUE,
                    questions |-> questions_pagniated,
                    total_questions |-> Len(questions_pagniated),
                    current_category |-> category_id], 200)

\* mutant: only the most recent previous question is excluded
NotIn_LastOnly(table, ids) ==
    SelectRows(table, [i \in 1..Len(table) |->
                          ids = <<>> \/ ids[Len(ids)] # table[i].id])

\* .filter(Question.id.notin_(previous_questions))
NotIn(table, ids) ==
    SelectRows(table, [i \in 1..Len(table) |->
                          \A j \in 1..Len(ids) : ids[j] # table[i].id])

\* mutant: the category branch forgets to exclude the previous questions
QuizQuery_NoExclusion(table, category_id, previous_questions) ==
    IF category_id = 0 THEN NotIn(table, previous_questions)
    ELSE InCategory(table, category_id)

\* the rows POST /quizzes draws from
QuizQuery(table, category_id, previous_questions) ==
    IF category_id = 0 THEN NotIn(table, previous_questions)
    ELSE NotIn(InCategory(table, category_id), previous_questions)

\* the exception raised before the query is run, or "" when there is none
QuizError(data) ==
    IF data.t # "obj" THEN "AttributeError"
    ELSE LET quiz_category == Get(data.v, "quiz_category")
             previous_questions == Get(data.v, "previous_questions")
         IN IF quiz_category.t # "obj" THEN "TypeError"
            ELSE IF "id" \notin DOMAIN quiz_category.v THEN "KeyError"
            ELSE IF quiz_category.v["id"].t = "null" THEN "TypeError"
            ELSE IF quiz_category.v["id"].t # "int" THEN "ValueError"
            ELSE IF previous_questions.t # "list" THEN "TypeError"
            ELSE ""

\* the rows a well-formed body selects
QuizRows(table, data) ==
    QuizQuery(table, data.v["quiz_category"].v["id"].v, data.v["previous_questions"].v)

\* the values randint(0, len(questions) - 1) can return
RandRange(table, data) ==
    IF QuizError(data) # "" \/ Len(QuizRows(table, data)) = 0 THEN {0}
    ELSE 0..(Len(QuizRows(table, data)) - 1)

\* mutant: the last remaining question is never served
get_quizzes_OffByOne(table, data, rand) ==
    IF QuizError(data) # "" THEN Raise(QuizError(data))
    ELSE LET rows == QuizRows(table, data)
             formatted_question == IF Len(rows) <= 1 THEN JNull
                                   ELSE format(rows[rand + 1])
         IN Return([success |-> TRUE, question |-> formatted_question], 200)

\* POST /quizzes, with rand the value randint returned
get_quizzes(table, data, rand) ==
    IF QuizError(data) # "" THEN Raise(QuizError(data))
    ELSE LET rows == QuizRows(table, data)
             formatted_question == IF Len(rows) = 0 THEN JNull
                                   ELSE format(rows[rand + 1])
         IN Return([success |-> TRUE, question |-> formatted_question], 200)

-----------------------------------------------------------------------------
(* Inputs *)

\* the categories table is seed data: no endpoint changes it
SeedCategories == <<[id |-> 1, type |-> "Science"], [id |-> 2, type |-> "Art"]>>

\* category ids a request names: 1 and 2 exist in SeedCategories, 3 does not
CategoryIds == {1, 2, 3}

Pages == {-1, 0, 1, 2, 3}
\* the query string: no page, a page number, or a page that is not a number
Args == {EmptyDict} \cup {[k \in {"page"} |-> JInt(p)] : p \in Pages}
            \cup {[k \in {"page"} |-> JStr(<<"a">>)]}
\* the query strings tried against the small tables of Spec
FewArgs == {EmptyDict, [k \in {"page"} |-> JInt(2)]}

Terms == { <<>>, <<"a">>, <<"A", "B">>, <<"b", "a">>, <<"_">>, <<"%">>, <<"b", "_">> }
SearchBodies ==
    {JObj([k \in {"searchTerm"} |-> JStr(t)]) : t \in Terms}
        \cup {JObj([k \in {"searchTerm"} |-> JInt(1)])}

ValidBody1 ==
    [question |-> JStr(<<"a", "b">>), answer |-> JStr(<<"b">>),
     category |-> JInt(1), difficulty |-> JInt(1)]
ValidBody2 ==
    [question |-> JStr(<<"A">>), answer |-> JStr(<<"a">>),
     category |-> JInt(2), difficulty |-> JInt(3)]
TextKeys == {"question", "answer"}
AllKeys == {"question", "answer", "category", "difficulty"}
\* bodies of POST /questions without a searchTerm: complete ones, ones with a
\* field absent, null or empty, a null searchTerm, and no JSON body at all
CreateBodies ==
    {JObj(ValidBody1), JObj(ValidBody2), JNull,
     JObj(With(ValidBody2, "searchTerm", JNull))}
        \cup {JObj(Without(ValidBody1, k)) : k \in AllKeys}
        \cup {JObj(With(ValidBody1, k, JNull)) : k \in AllKeys}
        \cup {JObj(With(ValidBody1, k, JStr(<<>>))) : k \in TextKeys}
\* a complete body that also carries a searchTerm
MixedBodies == {JObj(With(ValidBody1, "searchTerm", JStr(<<"a">>)))}

PrevLists ==
    {<<>>} \cup {<<i>> : i \in 1..MaxId} \cup {<<i, j>> : i, j \in 1..MaxId}
QuizCategories ==
    {JNull, JObj(EmptyDict), JObj([k \in {"id"} |-> JNull]),
     JObj([k \in {"id"} |-> JStr(<<"a">>)])}
        \cup {JObj([k \in {"id"} |-> JInt(c)]) : c \in CategoryIds \cup {0}}
QuizBody(prev, cat) ==
    JObj([k \in {"previous_questions", "quiz_category"} |->
             IF k = "previous_questions" THEN JList(prev) ELSE cat])
QuizBodies ==
    {QuizBody(prev, cat) : prev \in PrevLists, cat \in QuizCategories}
        \cup {JObj(Without(QuizBody(<<>>, cat).v, "previous_questions")) :
                 cat \in QuizCategories}
        \cup {JObj(EmptyDict), JNull}

\* seeded tables: row i has id i
SeedText(i) ==
    IF i % 7 = 0 THEN <<"b", "_">> ELSE IF i % 2 = 0 THEN <<"A", "b">> ELSE <<"a">>
SeedCategory(i) == IF i % 3 = 0 THEN 2 ELSE 1
SeedRow(i) ==
    [id |-> i, question |-> JStr(SeedText(i)), answer |-> JStr(<<"b">>),
     category |-> JInt(SeedCategory(i)), difficulty |-> JInt(1 + (i % 3))]
SeedTable(n) == [i \in 1..n |-> SeedRow(i)]

-----------------------------------------------------------------------------
(* Actions: one per endpoint *)

NoRequest == [op |-> "none"]
NoResponse == [status |-> 0, body |-> EmptyDict]

\* the server handles one request at a time: no request is in progress
Idle == req.op = "none"

\* after_request: the response leaves with its CORS headers and the request
\* context ends
AfterRequest ==
    /\ ~Idle
    /\ req' = NoRequest
    /\ resp' = NoResponse
    /\ before' = questions
    /\ UNCHANGED <<storeVars, roundVars>>

GetCategories ==
    /\ Idle
    /\ req' = [op |-> "get_categories"]
    /\ resp' = Finish(get_categories(categories))
    /\ before' = questions
    /\ UNCHANGED <<storeVars, roundVars>>

GetQuestions(args) ==
    /\ Idle
    /\ req' = [op |-> "get_questions", args |-> args]
    /\ resp' = Finish(get_questions(categories, questions, args))
    /\ before' = questions
    /\ UNCHANGED <<storeVars, roundVars>>

DeleteQuestions(question_id) ==
    LET r == delete_questions(questions, question_id)
    IN /\ Idle
       /\ req' = [op |-> "delete_questions", question_id |-> question_id]
       /\ resp' = Finish(r.out)
       /\ before' = questions
       /\ questions' = r.table
       /\ UNCHANGED <<categories, nextId, roundVars>>

CreateQuestion(data, args) ==
    LET r == create_question(questions, nextId, data, args)
    IN /\ Idle
       /\ (r.nextId # nextId) => (r.nextId <= MaxId + 1)
       /\ req' = [op |-> "create_question", data |-> data, args |-> args]
       /\ resp' = Finish(r.out)
       /\ before' = questions
       /\ questions' = r.table
       /\ nextId' = r.nextId
       /\ UNCHANGED <<categories, roundVars>>

GetQuestionsCategories(category_id, args) ==
    /\ Idle
    /\ req' = [op |-> "get_questions_categories",
               category_id |-> category_id, args |-> args]
    /\ resp' = Finish(get_questions_categories(questions, category_id, args))
    /\ before' = questions
    /\ UNCHANGED <<storeVars, roundVars>>

GetQuizzes(data) ==
    \E rand \in RandRange(questions, data) :
        /\ Idle
        /\ req' = [op |-> "get_quizzes", data |-> data]
        /\ resp' = Finish(get_quizzes(questions, data, rand))
        /\ before' = questions
        /\ UNCHANGED <<storeVars, roundVars>>

-----------------------------------------------------------------------------
(* The quiz client: one round for one category *)

StartRound(category_id) ==
    /\ roundState = "idle"
    /\ roundState' = "playing"
    /\ roundCat' = category_id
    /\ previous' = <<>>
    /\ calls' = 0
    /\ UNCHANGED <<storeVars, req, resp, before>>

\* the client posts its previous_questions and appends the id it receives;
\* a round needs at most one call more than the table has rows
RoundCall ==
    /\ roundState = "playing"
    /\ calls <= MaxRound
    /\ LET data == QuizBody(previous, JObj([k \in {"id"} |-> JInt(roundCat)]))
       IN \E rand \in RandRange(questions, data) :
            LET r == Finish(get_quizzes(questions, data, rand))
            IN /\ req' = [op |-> "get_quizzes", data |-> data]
               /\ resp' = r
               /\ before' = questions
               /\ calls' = calls + 1
               /\ IF r.status = 200 /\ "id" \in DOMAIN r.body.question
                  THEN /\ previous' = Append(previous, r.body.question.id)
                       /\ roundState' = "playing"
                  ELSE /\ previous' = previous
                       /\ roundState' = "exhausted"
               /\ UNCHANGED <<storeVars, roundCat>>

-----------------------------------------------------------------------------
(* Specifications *)

\* every stored question's category resolves to a row of the categories
\* table (the data model's foreign key), so an empty categories table goes
\* with an empty questions table
InitCommon ==
    /\ categories \in {SeedCategories} \cup (IF questions = <<>> THEN {<<>>} ELSE {})
    /\ req = NoRequest
    /\ resp = NoResponse
    /\ before = questions
    /\ roundState = "idle"
    /\ roundCat = 0
    /\ previous = <<>>
    /\ calls = 0

\* the service over an initially empty questions table and the seeded
\* categories; every question is created through POST /questions
Init ==
    /\ questions = <<>>
    /\ nextId = 1
    /\ InitCommon
    /\ categories = SeedCategories

Next ==
    \/ GetCategories
    \/ \E args \in FewArgs : GetQuestions(args)
    \/ \E question_id \in 1..(MaxId + 1) : DeleteQuestions(question_id)
    \/ \E data \in CreateBodies \cup SearchBodies \cup MixedBodies, args \in FewArgs :
           CreateQuestion(data, args)
    \/ \E category_id \in CategoryIds, args \in FewArgs :
           GetQuestionsCategories(category_id, args)
    \/ \E data \in QuizBodies : GetQuizzes(data)
    \/ AfterRequest

Spec == Init /\ [][Next]_vars

\* read-only requests over seeded tables of up to MaxItems rows
PageInit ==
    /\ \E n \in 0..MaxItems : questions = SeedTable(n) /\ nextId = n + 1
    /\ InitCommon

PageNext ==
    \/ GetCategories
    \/ \E args \in Args : GetQuestions(args)
    \/ \E data \in SearchBodies, args \in Args : CreateQuestion(data, args)
    \/ \E category_id \in CategoryIds, args \in Args :
           GetQuestionsCategories(category_id, args)
    \/ AfterRequest

PageSpec == PageInit /\ [][PageNext]_vars

\* a quiz round over a seeded table that nothing else modifies; the client
\* keeps calling until it is told there is nothing left
RoundInit ==
    /\ \E n \in 0..MaxRound : questions = SeedTable(n) /\ nextId = n + 1
    /\ InitCommon

RoundNext ==
    \/ \E category_id \in CategoryIds \cup {0} : StartRound(category_id)
    \/ RoundCall

RoundSpec == RoundInit /\ [][RoundNext]_vars /\ WF_vars(RoundCall)

-----------------------------------------------------------------------------
(* What the claims speak of, stated without the handlers' own operators *)

Range(seq) == {seq[i] : i \in 1..Len(seq)}
Rows(table) == {table[i] : i \in 1..Len(table)}

IsQuiz == req.op = "get_quizzes"
\* a quiz body with a list of previous questions and an integer category id
WellFormedQuiz ==
    /\ IsQuiz
    /\ req.data.t = "obj"
    /\ {"previous_questions", "quiz_category"} \subseteq DOMAIN req.data.v
    /\ req.data.v["previous_questions"].t = "list"
    /\ req.data.v["quiz_category"].t = "obj"
    /\ "id" \in DOMAIN req.data.v["quiz_category"].v
    /\ req.data.v["quiz_category"].v["id"].t = "int"
AskedCategory == req.data.v["quiz_category"].v["id"].v
AskedPrevious == Range(req.data.v["previous_questions"].v)
HasQuestion == "id" \in DOMAIN resp.body.question

\* the eligible set of the quiz selector, over the table the request saw
Eligible ==
    {row \in Rows(before) :
        /\ AskedCategory = 0 \/ row.category = JInt(AskedCategory)
        /\ row.id \notin AskedPrevious}

KnownCategoryIds == {categories[i].id : i \in 1..Len(categories)}

\* C1: a question returned by POST /quizzes has an id that is not in
\* previous_questions and, when the requested category id is not 0, belongs
\* to the requested category
C1_QuizUnseenInCategory ==
    (IsQuiz /\ resp.status = 200 /\ HasQuestion) =>
        /\ WellFormedQuiz
        /\ resp.body.question.id \notin AskedPrevious
        /\ (AskedCategory # 0) => resp.body.question.category = JInt(AskedCategory)

\* a question was returned although another question of the requested
\* category was excluded by previous_questions
C1_Witness ==
    /\ IsQuiz /\ resp.status = 200 /\ HasQuestion
    /\ AskedCategory # 0
    /\ \E row \in Rows(before) :
          row.category = JInt(AskedCategory) /\ row.id \in AskedPrevious

\* C2: POST /quizzes returns a null question exactly when the eligible set
\* (the category's questions, all questions for category 0, minus the previous
\* ones) is empty; a category id that is no known category gets a null
\* question with status 200, not an error
C2_NullIffExhausted ==
    WellFormedQuiz =>
        /\ resp.status = 200
        /\ (~HasQuestion) <=> (Eligible = {})
        /\ (~HasQuestion) => resp.body.question = JNull
        /\ (AskedCategory # 0 /\ AskedCategory \notin KnownCategoryIds) => ~HasQuestion

\* a null question although the table holds questions: all of the category's
\* questions were in previous_questions
C2_Witness ==
    /\ WellFormedQuiz /\ resp.status = 200 /\ ~HasQuestion
    /\ AskedCategory \in KnownCategoryIds
    /\ \E row \in Rows(before) : row.category = JInt(AskedCategory)

IsDelete == req.op = "delete_questions"

\* C5: DELETE /questions/{id} of an absent id answers 404 and leaves the
\* table as it was; of a present id it removes that row only and reports
\* deleted = id and total_questions = the previous count minus 1
C5_DeleteExactlyOne ==
    IsDelete =>
        IF req.question_id \notin Ids(before)
        THEN resp.status = 404 /\ questions = before
        ELSE /\ resp.status = 200
             /\ Rows(questions) = {row \in Rows(before) : row.id # req.question_id}
             /\ Len(questions) = Len(before) - 1
             /\ \A i, j \in 1..Len(questions) : i < j => questions[i].id < questions[j].id
             /\ resp.body.deleted = req.question_id
             /\ resp.body.total_questions = Len(before) - 1

\* a present id was deleted from a table that keeps another row
C5_Witness ==
    /\ IsDelete /\ resp.status = 200
    /\ req.question_id \in Ids(before)
    /\ Len(questions) >= 1

-----------------------------------------------------------------------------
(* Claims about errors and about POST /questions *)

\* C3 (as claimed): every POST /quizzes is answered with status 200, and no
\* endpoint answers with a status other than 200, 404 and 422
C3_QuizNeverFails ==
    /\ IsQuiz => resp.status = 200
    /\ ~Idle => resp.status \in {200, 404, 422}

IsPost == req.op = "create_question"
\* a POST /questions that is a create: a JSON object without a searchTerm
IsCreate ==
    /\ IsPost
    /\ req.data.t = "obj"
    /\ Get(req.data.v, "searchTerm").t = "null"
\* a POST /questions that is a search for a text
IsSearch ==
    /\ IsPost
    /\ req.data.t = "obj"
    /\ Get(req.data.v, "searchTerm").t = "str"

FieldsPresent == AllKeys \subseteq DOMAIN req.data.v
\* a field that is there but null or the empty string
EmptyField(k) ==
    /\ k \in DOMAIN req.data.v
    /\ req.data.v[k] \in {JNull, JStr(<<>>)}

\* the response to a search for this stored text on some page holds the row
FoundBySearch(row) ==
    /\ row.question.t = "str"
    /\ \E args \in Args :
          LET r == Finish(create_question(questions, nextId,
                       JObj([k \in {"searchTerm"} |-> row.question]), args).out)
          IN /\ r.status = 200
             /\ \E i \in 1..Len(r.body.questions) : r.body.questions[i] = format(row)

\* C6 (as claimed): a create with one of the four fields missing answers 422
\* and inserts nothing; with all four present the table gains exactly one
\* question, total_questions is the previous count plus 1, and a search on the
\* new question's text then returns it
C6_CreateOrReject ==
    IsCreate =>
        IF ~FieldsPresent
        THEN resp.status = 422 /\ questions = before
        ELSE /\ resp.status = 200
             /\ Len(questions) = Len(before) + 1
             /\ SubSeq(questions, 1, Len(before)) = before
             /\ resp.body.total_questions = Len(before) + 1
             /\ FoundBySearch(questions[Len(questions)])

\* C9 (as claimed): a create in which one of the four fields is present but
\* empty (null or the empty string) answers 422 and inserts nothing
C9_EmptyFieldRejected ==
    (IsCreate /\ \E k \in AllKeys : EmptyField(k)) =>
        resp.status = 422 /\ questions = before

-----------------------------------------------------------------------------
(* Claims about listing, searching and paging *)

\* C7 (as claimed): GET /categories answers 200 with the mapping from every
\* category id to its type when a category exists, and 404 when none does
C7_CategoriesOr404 ==
    (req.op = "get_categories") =>
        IF Len(categories) > 0
        THEN /\ resp.status = 200
             /\ DOMAIN resp.body.categories = KnownCategoryIds
             /\ \A i \in 1..Len(categories) :
                    resp.body.categories[categories[i].id] = categories[i].type
        ELSE resp.status = 404

RECURSIVE IsPrefix(_, _)
IsPrefix(p, s) ==
    IF p = <<>> THEN TRUE
    ELSE IF s = <<>> THEN FALSE
    ELSE Head(p) = Head(s) /\ IsPrefix(Tail(p), Tail(s))

RECURSIVE IsSubstring(_, _)
IsSubstring(p, s) ==
    IsPrefix(p, s) \/ (s # <<>> /\ IsSubstring(p, Tail(s)))

\* the text contains the term, letter case ignored
ContainsTerm(row, term) ==
    row.question.t = "str" /\ IsSubstring(LowerText(term), LowerText(row.question.v))

\* the rows of the table whose text contains the term, in table order
Matching(table, term) ==
    SelectRows(table, [i \in 1..Len(table) |-> ContainsTerm(table[i], term)])

\* items (p-1)*10+1 .. p*10 of seq, as far as they exist; p >= 1
PageItems(seq, p) ==
    LET start == (p - 1) * QUESTIONS_PER_PAGE
        count == Max(0, Min(QUESTIONS_PER_PAGE, Len(seq) - start))
    IN [i \in 1..count |-> seq[start + i]]

Formatted(table) == [i \in 1..Len(table) |-> format(table[i])]

\* a term of letters only: ILIKE reads % and _ in a term as wildcards
PlainTerm(term) == \A i \in 1..Len(term) : term[i] \notin {"%", "_"}

\* C8 (as claimed): a search returns the requested page of the questions whose
\* text contains the term, letter case ignored, with total_questions the
\* number of all matching questions; a term matching nothing answers 200
\* with no questions and total_questions 0.  Stated for terms of letters,
\* on which ILIKE '%term%' is the substring test.
C8_SearchPageAndTotal ==
    (IsSearch /\ PlainTerm(req.data.v["searchTerm"].v) /\ PageOf(req.args) >= 1) =>
        LET matches == Matching(before, req.data.v["searchTerm"].v)
        IN /\ resp.status = 200
           /\ resp.body.questions = PageItems(Formatted(matches), PageOf(req.args))
           /\ resp.body.total_questions = Len(matches)

RECURSIVE ConcatPages(_, _)
\* pages 1..n of the table, one after the other
ConcatPages(table, n) ==
    IF n = 0 THEN <<>>
    ELSE ConcatPages(table, n - 1)
            \o paginate([k \in {"page"} |-> JInt(n)], table)

PageCount(table) == (Len(table) + QUESTIONS_PER_PAGE - 1) \div QUESTIONS_PER_PAGE

\* C4: for every page number p >= 1, paginate returns the items at positions
\* (p-1)*10 up to p*10: at most 10 of them, none beyond the data, and pages
\* 1..ceil(len/10) put together are the items; GET /questions answers with
\* that page
C4_Paginate ==
    /\ \A p \in 1..(PageCount(questions) + 2) :
          LET page == paginate([k \in {"page"} |-> JInt(p)], questions)
          IN /\ Len(page) <= QUESTIONS_PER_PAGE
             /\ page = PageItems(Formatted(questions), p)
             /\ (p > PageCount(questions)) => page = <<>>
    /\ ConcatPages(questions, PageCount(questions)) = Formatted(questions)
    /\ (req.op = "get_questions" /\ PageOf(req.args) >= 1 /\ resp.status = 200) =>
          resp.body.questions = PageItems(Formatted(before), PageOf(req.args))

\* the second page of a table of more than 10 rows was served, and it is
\* a partial page
C4_Witness ==
    /\ req.op = "get_questions" /\ PageOf(req.args) = 2 /\ resp.status = 200
    /\ Len(before) > QUESTIONS_PER_PAGE
    /\ Len(resp.body.questions) \in 1..(QUESTIONS_PER_PAGE - 1)

-----------------------------------------------------------------------------
(* The quiz round *)

\* the ids of the round's category in the table (all ids for category 0)
RoundIds ==
    {row.id : row \in {r \in Rows(questions) :
                          roundCat = 0 \/ r.category = JInt(roundCat)}}

\* while playing, every call so far returned a question of the category that
\* had not been returned before; the call that returns null is the one after
\* every question of the category was returned once
RoundSafe ==
    /\ (roundState # "idle") =>
          /\ Range(previous) \subseteq RoundIds
          /\ \A i, j \in 1..Len(previous) : i # j => previous[i] # previous[j]
    /\ (roundState = "playing") => calls = Len(previous)
    /\ (roundState = "exhausted") =>
          /\ resp.status = 200 /\ resp.body.question = JNull
          /\ Range(previous) = RoundIds
          /\ calls = Cardinality(RoundIds) + 1

\* C10: in a quiz round for one category over an unmodified table, no
\* question is returned twice, every question of the category is returned,
\* the call after the last of them returns null, and the round always
\* reaches that point
C10_RoundExhausts ==
    /\ []RoundSafe
    /\ (roundState = "playing") ~> (roundState = "exhausted")

\* a round for category 1 ended after three questions
C10_Witness ==
    /\ roundState = "exhausted"
    /\ roundCat = 1
    /\ Len(previous) = 3

====
